---- MODULE Spec2Model ----
(***************************************************************************)
(* Model of the moderation bot of src/bot.py: the Watch Registry           *)
(* (bot_data['watched']), the Identity Cache (bot_data['user_cache']),     *)
(* their sqlite tables, and the handlers id_cmd, who_cmd, watch_cmd,       *)
(* unwatch_cmd and catch_all.                                              *)
(*                                                                         *)
(* A Python str is a sequence of one-character strings, so that lower(),   *)
(* lstrip(), isdigit(), int() and str() are computed, not assumed.         *)
(* A Python dict is a sequence of <<key, value>> entries with distinct     *)
(* keys: dicts keep insertion order and watched.items() exposes it.        *)
(***************************************************************************)
EXTENDS Integers, Sequences, FiniteSets, TLC

VARIABLES
    watched,     \* bot_data['watched']: dict user_id -> display, insertion-ordered
    user_cache,  \* bot_data['user_cache']: dict lowercased username -> user_id
    dbWatched,   \* table watched_users: user_id -> display_name
    dbCache,     \* table user_cache: username -> [user_id, last_seen]
    now,         \* CURRENT_TIMESTAMP of the sqlite connection (one-second ticks)
    budget,      \* number of store calls that may still fail
    event,       \* the update handled by the last step
    reply,       \* what the last handler sent with reply_text, or how it ended
    deletes,     \* the delete_message calls of the last handler
    lookups,     \* the usernames the last handler passed to get_chat_member
    cacheReads,  \* the keys the last handler passed to user_cache.get
    running      \* request thread -> what is left of the handler it runs

vars == <<watched, user_cache, dbWatched, dbCache, now, budget,
          event, reply, deletes, lookups, cacheReads, running>>

----------------------------------------------------------------------------
(* Bounds of the model.                                                    *)

\* user ids range over -IdSpan .. IdSpan (negative, zero and positive)
IdSpan == 1
\* message ids are 1 .. MaxMsgId
MaxMsgId == 2
\* the clock stops at MaxClock
MaxClock == 1
\* at most MaxFaults failed store calls in a behaviour of SpecFaulty
MaxFaults == 1
\* the webhook requests that can be in progress at the same time
MaxThreads == 2

\* The LIMIT of the pruning DELETE of save_user_cache. The source keeps 2000
\* rows; the model keeps KEEP_ROWS rows so that the limit is crossed with the
\* handful of usernames of the model.
KEEP_ROWS == 2

\* The upper bound and the target that the documentation sets for the
\* Identity Cache (2000 and 1500), scaled the same way.
CACHE_BOUND == 2
CACHE_TARGET == 1

MsgIds == 1..MaxMsgId
ChatIds == {0 - 100}
Threads == 1..MaxThreads

----------------------------------------------------------------------------
(* Python str                                                              *)

Digits == <<"0", "1", "2", "3", "4", "5", "6", "7", "8", "9">>

\* str.isdigit() on one character
IsDigitChar(c) == \E i \in 1..10 : Digits[i] = c

DigitValue(c) == (CHOOSE i \in 1..10 : Digits[i] = c) - 1

\* str.lower() on one character
LowerChar(c) ==
    CASE c = "A" -> "a"
      [] c = "B" -> "b"
      [] c = "C" -> "c"
      [] OTHER -> c

\* str.lower()
Lower(s) == [i \in 1..Len(s) |-> LowerChar(s[i])]

\* str.lstrip(ch)
RECURSIVE Lstrip(_, _)
Lstrip(s, ch) ==
    IF s # <<>> /\ Head(s) = ch THEN Lstrip(Tail(s), ch) ELSE s

\* str.rstrip(ch)
RECURSIVE Rstrip(_, _)
Rstrip(s, ch) ==
    IF s # <<>> /\ s[Len(s)] = ch THEN Rstrip(SubSeq(s, 1, Len(s) - 1), ch) ELSE s

\* str.strip(): whitespace off both ends
Strip(s) == Rstrip(Lstrip(s, " "), " ")

\* str.isdigit(): non-empty and every character a digit
IsDigit(s) == s # <<>> /\ \A i \in 1..Len(s) : IsDigitChar(s[i])

\* str.startswith(ch)
StartsWith(s, ch) == s # <<>> /\ Head(s) = ch

\* the value of a string of digits
RECURSIVE NatOf(_)
NatOf(s) ==
    IF s = <<>> THEN 0
    ELSE 10 * NatOf(SubSeq(s, 1, Len(s) - 1)) + DigitValue(s[Len(s)])

\* int(s) for s with s.lstrip("-").isdigit(): one optional sign, then digits;
\* anything else is a ValueError
IntOf(s) ==
    IF IsDigit(s) THEN [ok |-> TRUE, val |-> NatOf(s)]
    ELSE IF StartsWith(s, "-") /\ IsDigit(Tail(s))
         THEN [ok |-> TRUE, val |-> 0 - NatOf(Tail(s))]
         ELSE [ok |-> FALSE, val |-> 0]

RECURSIVE NatStr(_)
NatStr(n) ==
    IF n < 10 THEN <<Digits[n + 1]>>
    ELSE NatStr(n \div 10) \o <<Digits[(n % 10) + 1]>>

\* str(n)
Str(n) == IF n < 0 THEN <<"-">> \o NatStr(0 - n) ELSE NatStr(n)

\* truth value of a Python object used as a condition
TruthyInt(n) == n # 0
TruthyStr(s) == s # <<>>

----------------------------------------------------------------------------
(* Python dict, as a sequence of <<key, value>>                            *)

Keys(d) == {d[i][1] : i \in 1..Len(d)}

Has(d, k) == k \in Keys(d)

\* d[k] for a key that is present
Get(d, k) == d[CHOOSE i \in 1..Len(d) : d[i][1] = k][2]

\* d[k] = v: an existing key keeps its position, a new key goes last
Put(d, k, v) ==
    IF Has(d, k)
    THEN [i \in 1..Len(d) |-> IF d[i][1] = k THEN <<k, v>> ELSE d[i]]
    ELSE Append(d, <<k, v>>)

\* the dict after d.get(k): nothing is taken out
WithoutNothing(d, k) == d

RECURSIVE Without(_, _)
\* the dict after d.pop(k, None)
Without(d, k) ==
    IF d = <<>> THEN <<>>
    ELSE IF Head(d)[1] = k THEN Tail(d)
    ELSE <<Head(d)>> \o Without(Tail(d), k)

----------------------------------------------------------------------------
(* A mapping whose order is never observed (the user_cache dict, which is  *)
(* only indexed, and the rows of a table), as a function                   *)

EmptyMap == [k \in {} |-> 0]

MapPut(m, k, v) == [x \in (DOMAIN m) \cup {k} |-> IF x = k THEN v ELSE m[x]]

MapDel(m, k) == [x \in (DOMAIN m) \ {k} |-> m[x]]

Restrict(m, S) == [x \in S |-> m[x]]

----------------------------------------------------------------------------
(* The inputs of the handlers                                              *)

None == <<>>   \* a missing username: None and "" are both falsy

NoSender == [present |-> FALSE]

\* update.effective_message with its from_user, chat.id and message_id, for
\* senders with an id of Ids and a username of Names
MessagesOf(Ids, Names) ==
    {NoSender} \cup
    [present : {TRUE}, uid : Ids, username : Names,
     chat : ChatIds, mid : MsgIds]

\* context.args: no argument, or one of the tokens
ArgListsOf(Toks) == {<<>>} \cup {<<t>> : t \in Toks}

\* the outcome of context.bot.get_chat_member: an exception, or a member
LookupFailed == [found |-> FALSE]

LookupResultsOf(Ids) ==
    {LookupFailed} \cup
    [found : {TRUE}, uid : Ids, username : {None, <<"b">>},
     first_name : {<<"a">>}]

\* The inputs of Spec: two users, one of them with the id 0, one username in
\* both letter cases, and tokens of every shape
UserIds == {0, 1}

Usernames == {None, <<"a">>, <<"A">>}

Messages == MessagesOf(UserIds, Usernames)

NumericTokens == {Str(n) : n \in UserIds} \cup {<<"0", "1">>, <<"-", "-", "1">>}

HandleTokens ==
    {<<"@", "a">>, <<"@", "A">>, <<"@", "b">>, <<"@">>, <<"@", "1">>}

OtherTokens == {<<"x">>, <<"-">>}

Tokens == NumericTokens \cup HandleTokens \cup OtherTokens

ArgLists == ArgListsOf(Tokens)

LookupResults == LookupResultsOf(UserIds)

\* The inputs of SpecIds: the ids -IdSpan .. IdSpan, written as decimal
\* strings, with a leading zero, with "-0" and with two signs
SignedIds == (0 - IdSpan)..IdSpan

SignedTokens ==
    {Str(n) : n \in SignedIds} \cup
    {<<"0", "1">>, <<"-", "0">>, <<"-", "-", "1">>}

SignedArgLists == ArgListsOf(SignedTokens)

SignedMessages == MessagesOf(SignedIds, {None, <<"a">>})

\* The inputs of SpecCache: more usernames than the table keeps rows
ManyUsernames == {<<"a">>, <<"A">>, <<"b">>, <<"c">>}

ManyMessages == MessagesOf(UserIds, ManyUsernames)

\* The inputs of SpecHandles: two users that carry the same handle one
\* after the other, and the handle typed in both letter cases
HandleUserIds == {1, 2}

HandleMessages == MessagesOf(HandleUserIds, {<<"a">>, <<"A">>})

HandleArgLists == ArgListsOf({<<"@", "a">>, <<"@", "A">>})

----------------------------------------------------------------------------
(* The sqlite tables. Each function opens its own connection and commits   *)
(* at the end; an exception before the commit (ok = FALSE) is caught and   *)
(* logged by the function and leaves the table as it was.                  *)

\* save_watched_user: INSERT OR REPLACE INTO watched_users
SaveWatchedUser(db, uid, disp, ok) ==
    IF ok THEN MapPut(db, uid, disp) ELSE db

\* remove_watched_user: DELETE FROM watched_users WHERE user_id = ?
RemoveWatchedUser(db, uid, ok) ==
    IF ok THEN MapDel(db, uid) ELSE db

RECURSIVE RowsAscending(_, _)
\* the rows of watched_users as a table scan returns them: user_id is the
\* INTEGER PRIMARY KEY, that is the rowid, and the scan runs in rowid order
RowsAscending(db, ids) ==
    IF ids = {} THEN <<>>
    ELSE LET least == CHOOSE i \in ids : \A j \in ids : i <= j
         IN <<<<least, db[least]>>>> \o RowsAscending(db, ids \ {least})

\* load_watched_users: the dict built from SELECT user_id, display_name,
\* or {} when the query raised
LoadWatchedUsers(db, ok) ==
    IF ok THEN RowsAscending(db, DOMAIN db) ELSE <<>>

\* the sets of rows that "ORDER BY last_seen DESC LIMIT n" can select: n rows
\* (all of them when there are fewer), none older than a row left out; rows
\* with equal last_seen come in an order SQL does not define (sqlite 3.40
\* takes them in rowid order, which leaves out the row written last)
NewestRows(db, n) ==
    {K \in SUBSET (DOMAIN db) :
        /\ Cardinality(K) = IF Cardinality(DOMAIN db) < n
                             THEN Cardinality(DOMAIN db) ELSE n
        /\ \A k \in K : \A d \in (DOMAIN db) \ K :
               db[k].last_seen >= db[d].last_seen}

\* save_user_cache: INSERT OR REPLACE of (username.lower(), user_id,
\* CURRENT_TIMESTAMP), then DELETE of the rows not among the newest
\* KEEP_ROWS; the tables it can leave behind
SaveUserCache(db, username, uid, t, ok) ==
    IF ok
    THEN LET ins == MapPut(db, Lower(username),
                           [user_id |-> uid, last_seen |-> t])
         IN {Restrict(ins, K) : K \in NewestRows(ins, KEEP_ROWS)}
    ELSE {db}

\* load_user_cache: the dict built from SELECT username, user_id, or {}
LoadUserCache(db, ok) ==
    IF ok THEN [k \in DOMAIN db |-> db[k].user_id] ELSE EmptyMap

----------------------------------------------------------------------------
(* What a handler leaves behind for the platform                           *)

NoReply == [kind |-> "none", body |-> <<>>, raised |-> FALSE]

\* update.message.reply_text(...)
Reply(kind, body) == [kind |-> kind, body |-> body, raised |-> FALSE]

\* an exception that leaves the handler
Raised == [kind |-> "none", body |-> <<>>, raised |-> TRUE]

\* a request thread that runs no handler
Idle ==
    [pc |-> "idle", cmd |-> "none", args |-> <<>>, op |-> "none", uid |-> 0,
     disp |-> <<>>, reply |-> NoReply]

\* the request threads in which a handler has started and not yet returned
InProgress == {t \in Threads : running[t] # Idle}

\* the state after start-up with empty tables and f store failures to come
Start(f) ==
    /\ watched = <<>>
    /\ user_cache = EmptyMap
    /\ dbWatched = EmptyMap
    /\ dbCache = EmptyMap
    /\ now = 0
    /\ budget = f
    /\ event = [cmd |-> "start", args |-> <<>>]
    /\ reply = NoReply
    /\ deletes = <<>>
    /\ lookups = <<>>
    /\ cacheReads = <<>>
    /\ running = [t \in Threads |-> Idle]

\* the store never fails
Init == Start(0)

\* the store fails up to MaxFaults times
InitFaulty == Start(MaxFaults)

\* the outcomes of a store call: it may fail while failures are left to inject
StoreOutcomes == IF budget > 0 THEN BOOLEAN ELSE {TRUE}

Injected(ok) == IF ok THEN budget ELSE budget - 1

\* a handler that calls neither the platform nor the cache
Quiet ==
    /\ deletes' = <<>>
    /\ lookups' = <<>>
    /\ cacheReads' = <<>>

----------------------------------------------------------------------------
(* catch_all                                                               *)

\* a sender is taken for watched only when the id is truthy as well
IsWatchedTruthy(w, uid) == Has(w, uid) /\ TruthyInt(uid)

\* "if uid in watched"
IsWatched(w, uid) == Has(w, uid)

\* the cache written for every sender, with or without a username
ObserveAnonymous(cache, username, uid) == MapPut(cache, Lower(username), uid)

\* "if user.username: user_cache[user.username.lower()] = uid"
Observe(cache, username, uid) ==
    IF TruthyStr(username) THEN MapPut(cache, Lower(username), uid) ELSE cache

\* context.bot.delete_message(chat_id=msg.chat.id, message_id=msg.message_id)
DeleteCall(m, delOk) ==
    [chat_id |-> m.chat, message_id |-> m.mid, ok |-> delOk]

\* delete_message called outside a try block: its exception leaves the handler
AfterDeleteUncaught(delOk) == IF delOk THEN NoReply ELSE Raised

\* how catch_all ends after delete_message: "except Exception" logs a failed
\* deletion and the handler returns
AfterDelete(delOk) == NoReply

\* m: update.effective_message; the store call and delete_message may fail
CatchAll(m) ==
    /\ event' = [cmd |-> "msg", args |-> <<>>]
    /\ lookups' = <<>>
    /\ cacheReads' = <<>>
    /\ IF ~m.present
       THEN /\ deletes' = <<>>
            /\ reply' = NoReply
            /\ UNCHANGED <<user_cache, dbCache, budget>>
       ELSE /\ user_cache' = Observe(user_cache, m.username, m.uid)
            /\ IF TruthyStr(m.username)
               THEN \E dbOk \in StoreOutcomes :
                       /\ dbCache' \in SaveUserCache(dbCache, m.username, m.uid,
                                                     now, dbOk)
                       /\ budget' = Injected(dbOk)
               ELSE UNCHANGED <<dbCache, budget>>
            /\ IF IsWatched(watched, m.uid)
               THEN \E delOk \in BOOLEAN :
                       /\ deletes' = <<DeleteCall(m, delOk)>>
                       /\ reply' = AfterDelete(delOk)
               ELSE /\ deletes' = <<>>
                    /\ reply' = NoReply
    /\ UNCHANGED <<watched, dbWatched, now, running>>

\* the clock of CURRENT_TIMESTAMP advances
Tick ==
    /\ now < MaxClock
    /\ now' = now + 1
    /\ event' = [cmd |-> "tick", args |-> <<>>]
    /\ reply' = NoReply
    /\ Quiet
    /\ UNCHANGED <<watched, user_cache, dbWatched, dbCache, budget, running>>

----------------------------------------------------------------------------
(* id_cmd, who_cmd                                                         *)

\* update.effective_user of a command
Senders == {NoSender} \cup [present : {TRUE}, uid : UserIds]

\* sender: update.effective_user (NoSender when absent)
IdCmd(sender) ==
    /\ event' = [cmd |-> "id", args |-> <<>>]
    /\ reply' = IF sender.present THEN Reply("id", <<sender.uid>>) ELSE NoReply
    /\ Quiet
    /\ UNCHANGED <<watched, user_cache, dbWatched, dbCache, now, budget, running>>

\* the lines "{disp} -> {uid}" of /who, in the order of watched.items()
WhoLines(w) == [i \in 1..Len(w) |-> [disp |-> w[i][2], uid |-> w[i][1]]]

WhoCmd ==
    /\ event' = [cmd |-> "who", args |-> <<>>]
    /\ reply' = IF watched = <<>> THEN Reply("no_users", <<>>)
                ELSE Reply("who", WhoLines(watched))
    /\ Quiet
    /\ UNCHANGED <<watched, user_cache, dbWatched, dbCache, now, budget, running>>

----------------------------------------------------------------------------
(* watch_cmd                                                               *)

\* the sign forgotten: "arg.isdigit()"
IsNumericUnsigned(arg) == IsDigit(arg)

\* "arg.lstrip('-').isdigit()"
IsNumeric(arg) == IsDigit(Lstrip(arg, "-"))

\* "uid = user_cache.get(uname.lower())" followed by "if uid:"
CacheHit(cache, uname) ==
    /\ Lower(uname) \in DOMAIN cache
    /\ TruthyInt(cache[Lower(uname)])

\* f"@{member.user.username or member.user.first_name}"
MemberDisplay(member) ==
    <<"@">> \o (IF TruthyStr(member.username) THEN member.username
                ELSE member.first_name)

\* watched[uid] = disp; save_watched_user(uid, disp)
Register(uid, disp) ==
    /\ watched' = Put(watched, uid, disp)
    /\ \E dbOk \in StoreOutcomes :
          /\ dbWatched' = SaveWatchedUser(dbWatched, uid, disp, dbOk)
          /\ budget' = Injected(dbOk)

\* the body of the try block: lk is what get_chat_member does; the reply_text
\* after the registry update may raise as well, into the same except clause
ResolveByLookup(lk) ==
    IF lk.found
    THEN /\ Register(lk.uid, MemberDisplay(lk))
         /\ \E replyOk \in BOOLEAN :
               reply' = IF replyOk THEN Reply("now_watching", <<lk.uid>>)
                        ELSE Reply("unresolved", <<>>)
    ELSE /\ reply' = Reply("unresolved", <<>>)
         /\ UNCHANGED <<watched, dbWatched, budget>>

\* args: context.args; Lks: what get_chat_member can do when it is called
WatchCmd(args, Lks) ==
    /\ event' = [cmd |-> "watch", args |-> args]
    /\ deletes' = <<>>
    /\ UNCHANGED <<user_cache, dbCache, now, running>>
    /\ IF args = <<>>
       THEN /\ reply' = Reply("usage", <<>>)
            /\ lookups' = <<>>
            /\ cacheReads' = <<>>
            /\ UNCHANGED <<watched, dbWatched, budget>>
       ELSE LET arg == Strip(args[1]) IN
            IF IsNumeric(arg)
            THEN /\ lookups' = <<>>
                 /\ cacheReads' = <<>>
                 /\ IF IntOf(arg).ok
                    THEN LET uid == IntOf(arg).val IN
                         /\ Register(uid, Str(uid))
                         /\ reply' = Reply("now_watching", <<uid>>)
                    ELSE \* int(arg) raises ValueError
                         /\ reply' = Raised
                         /\ UNCHANGED <<watched, dbWatched, budget>>
            ELSE IF StartsWith(arg, "@")
            THEN LET uname == Strip(Tail(arg)) IN
                 IF ~TruthyStr(uname)
                 THEN /\ reply' = Reply("usage", <<>>)
                      /\ lookups' = <<>>
                      /\ cacheReads' = <<>>
                      /\ UNCHANGED <<watched, dbWatched, budget>>
                 ELSE /\ cacheReads' = <<Lower(uname)>>
                      /\ IF CacheHit(user_cache, uname)
                         THEN LET uid == user_cache[Lower(uname)] IN
                              /\ Register(uid, <<"@">> \o uname)
                              /\ lookups' = <<>>
                              /\ reply' = Reply("now_watching", <<uid>>)
                         ELSE /\ lookups' = <<uname>>
                              /\ \E lk \in Lks : ResolveByLookup(lk)
            ELSE /\ reply' = Reply("invalid", <<>>)
                 /\ lookups' = <<>>
                 /\ cacheReads' = <<>>
                 /\ UNCHANGED <<watched, dbWatched, budget>>

----------------------------------------------------------------------------
(* unwatch_cmd                                                             *)

\* the display compared with its "@": "disp.lower() == '@' + uname"
DisplayMatchesWithAt(disp, uname) == Lower(disp) = <<"@">> \o uname

\* "disp.lstrip('@').lower() == uname"
DisplayMatches(disp, uname) == Lower(Lstrip(disp, "@")) = uname

\* the positions of the entries of w that the loop of /unwatch @uname matches
Matching(w, uname) == {i \in 1..Len(w) : DisplayMatches(w[i][2], uname)}

\* the entry at which the loop over list(watched.items()) returns
FirstMatch(w, uname) ==
    CHOOSE i \in Matching(w, uname) : \A j \in Matching(w, uname) : i <= j

\* watched.pop(uid, None)
Popped(w, uid) == IF Has(w, uid) THEN Get(w, uid) ELSE None

\* remove_watched_user(uid)
Unregister(uid) ==
    \E dbOk \in StoreOutcomes :
       /\ dbWatched' = RemoveWatchedUser(dbWatched, uid, dbOk)
       /\ budget' = Injected(dbOk)

UnwatchCmd(args) ==
    /\ event' = [cmd |-> "unwatch", args |-> args]
    /\ Quiet
    /\ UNCHANGED <<user_cache, dbCache, now, running>>
    /\ IF args = <<>>
       THEN /\ reply' = Reply("usage", <<>>)
            /\ UNCHANGED <<watched, dbWatched, budget>>
       ELSE LET arg == Strip(args[1]) IN
            IF IsNumeric(arg)
            THEN IF IntOf(arg).ok
                 THEN LET uid == IntOf(arg).val IN
                      /\ watched' = Without(watched, uid)
                      /\ IF TruthyStr(Popped(watched, uid))
                         THEN /\ Unregister(uid)
                              /\ reply' = Reply("stopped", <<uid>>)
                         ELSE /\ reply' = Reply("id_not_watched", <<>>)
                              /\ UNCHANGED <<dbWatched, budget>>
                 ELSE \* int(arg) raises ValueError
                      /\ reply' = Raised
                      /\ UNCHANGED <<watched, dbWatched, budget>>
            ELSE IF StartsWith(arg, "@")
            THEN LET uname == Lower(Strip(Tail(arg))) IN
                 IF Matching(watched, uname) # {}
                 THEN LET uid == watched[FirstMatch(watched, uname)][1] IN
                      /\ watched' = Without(watched, uid)
                      /\ Unregister(uid)
                      /\ reply' = Reply("stopped_name", <<uname>>)
                 ELSE /\ reply' = Reply("name_not_watched", <<>>)
                      /\ UNCHANGED <<watched, dbWatched, budget>>
            ELSE /\ reply' = Reply("cannot_unwatch", <<>>)
                 /\ UNCHANGED <<watched, dbWatched, budget>>

----------------------------------------------------------------------------
(* A restart of the process: bot_data is filled again from the tables      *)

Restart ==
    /\ \E okW \in StoreOutcomes, okC \in StoreOutcomes :
          /\ okW \/ okC \/ budget > 1
          /\ watched' = LoadWatchedUsers(dbWatched, okW)
          /\ user_cache' = LoadUserCache(dbCache, okC)
          /\ budget' = budget - (IF okW THEN 0 ELSE 1) - (IF okC THEN 0 ELSE 1)
    /\ event' = [cmd |-> "restart", args |-> <<>>]
    /\ reply' = NoReply
    /\ Quiet
    /\ running' = [t \in Threads |-> Idle]
    /\ UNCHANGED <<dbWatched, dbCache, now>>

----------------------------------------------------------------------------

Next ==
    \/ \E m \in Messages : CatchAll(m)
    \/ \E sender \in Senders : IdCmd(sender)
    \/ WhoCmd
    \/ \E args \in ArgLists : WatchCmd(args, LookupResults)
    \/ \E args \in ArgLists : UnwatchCmd(args)
    \/ Restart

Spec == Init /\ [][Next]_vars

\* the same handlers over a store that fails
SpecFaulty == InitFaulty /\ [][Next]_vars

\* /watch and /unwatch by numeric id, for ids of either sign, among messages
NextIds ==
    \/ \E m \in SignedMessages : CatchAll(m)
    \/ \E args \in SignedArgLists : WatchCmd(args, {LookupFailed})
    \/ \E args \in SignedArgLists : UnwatchCmd(args)

SpecIds == Init /\ [][NextIds]_vars

\* the Identity Cache under a stream of messages
NextCache ==
    \/ \E m \in ManyMessages : CatchAll(m)
    \/ Tick
    \/ Restart

SpecCache == Init /\ [][NextCache]_vars

\* /watch and /unwatch by handle, for a handle that moves between users;
\* every resolution is by the cache
NextHandles ==
    \/ \E m \in HandleMessages : CatchAll(m)
    \/ \E args \in HandleArgLists : WatchCmd(args, {LookupFailed})
    \/ \E args \in HandleArgLists : UnwatchCmd(args)

SpecHandles == Init /\ [][NextHandles]_vars

----------------------------------------------------------------------------
(* watch_cmd and unwatch_cmd statement by statement. A handler runs in the  *)
(* thread of its webhook request: first everything up to and including the  *)
(* update of bot_data['watched'], then the store call (the only statement   *)
(* under db_lock), then reply_text.                                         *)

\* what a handler has decided: mem is the update of the registry, op the
\* store call that follows it, reply the reply_text that ends the handler
Plan(mem, op, uid, disp, r, lks, reads) ==
    [mem |-> mem, op |-> op, uid |-> uid, disp |-> disp, reply |-> r,
     lookups |-> lks, cacheReads |-> reads]

\* a handler that touches neither the registry nor the store
NoWrite(r, lks, reads) == Plan("none", "none", 0, <<>>, r, lks, reads)

\* watched[uid] = disp; save_watched_user(uid, disp); reply_text(...)
WatchPlanOf(uid, disp, r, lks, reads) ==
    Plan("put", "save", uid, disp, r, lks, reads)

\* watch_cmd over the cache it reads; lk is what get_chat_member does and
\* replyOk whether the reply_text of the try block goes through
WatchPlan(args, cache, lk, replyOk) ==
    IF args = <<>> THEN NoWrite(Reply("usage", <<>>), <<>>, <<>>)
    ELSE LET arg == Strip(args[1]) IN
         IF IsNumeric(arg)
         THEN IF IntOf(arg).ok
              THEN LET uid == IntOf(arg).val IN
                   WatchPlanOf(uid, Str(uid), Reply("now_watching", <<uid>>),
                               <<>>, <<>>)
              ELSE NoWrite(Raised, <<>>, <<>>)
         ELSE IF StartsWith(arg, "@")
         THEN LET uname == Strip(Tail(arg)) IN
              IF ~TruthyStr(uname) THEN NoWrite(Reply("usage", <<>>), <<>>, <<>>)
              ELSE IF CacheHit(cache, uname)
              THEN LET uid == cache[Lower(uname)] IN
                   WatchPlanOf(uid, <<"@">> \o uname,
                               Reply("now_watching", <<uid>>),
                               <<>>, <<Lower(uname)>>)
              ELSE IF lk.found
              THEN WatchPlanOf(lk.uid, MemberDisplay(lk),
                               IF replyOk THEN Reply("now_watching", <<lk.uid>>)
                               ELSE Reply("unresolved", <<>>),
                               <<uname>>, <<Lower(uname)>>)
              ELSE NoWrite(Reply("unresolved", <<>>), <<uname>>, <<Lower(uname)>>)
         ELSE NoWrite(Reply("invalid", <<>>), <<>>, <<>>)

\* unwatch_cmd over the registry w it reads
UnwatchPlan(args, w) ==
    IF args = <<>> THEN NoWrite(Reply("usage", <<>>), <<>>, <<>>)
    ELSE LET arg == Strip(args[1]) IN
         IF IsNumeric(arg)
         THEN IF IntOf(arg).ok
              THEN LET uid == IntOf(arg).val IN
                   IF TruthyStr(Popped(w, uid))
                   THEN Plan("pop", "remove", uid, <<>>,
                             Reply("stopped", <<uid>>), <<>>, <<>>)
                   ELSE Plan("pop", "none", uid, <<>>,
                             Reply("id_not_watched", <<>>), <<>>, <<>>)
              ELSE NoWrite(Raised, <<>>, <<>>)
         ELSE IF StartsWith(arg, "@")
         THEN LET uname == Lower(Strip(Tail(arg))) IN
              IF Matching(w, uname) # {}
              THEN Plan("pop", "remove", w[FirstMatch(w, uname)][1], <<>>,
                        Reply("stopped_name", <<uname>>), <<>>, <<>>)
              ELSE NoWrite(Reply("name_not_watched", <<>>), <<>>, <<>>)
         ELSE NoWrite(Reply("cannot_unwatch", <<>>), <<>>, <<>>)

\* the registry after the update that plan p makes
AfterMem(w, p) ==
    CASE p.mem = "put" -> Put(w, p.uid, p.disp)
      [] p.mem = "pop" -> Without(w, p.uid)
      [] OTHER -> w

\* the handler goes from the registry update straight to reply_text
NextPcWithoutStore(p) == "reply"

\* the statement after the registry update: the store call when there is
\* one, else reply_text
NextPc(p) == IF p.op = "none" THEN "reply" ELSE "store"

\* what is left of a handler after its update of the registry
Pending(cmd, args, p) ==
    [pc |-> NextPc(p), cmd |-> cmd, args |-> args, op |-> p.op, uid |-> p.uid,
     disp |-> p.disp, reply |-> p.reply]

\* the table after the store call that r has pending
AfterStore(db, r, ok) ==
    CASE r.op = "save" -> SaveWatchedUser(db, r.uid, r.disp, ok)
      [] r.op = "remove" -> RemoveWatchedUser(db, r.uid, ok)
      [] OTHER -> db

\* thread t runs plan p of handler cmd up to the update of the registry
Begin(t, cmd, args, p) ==
    /\ running[t] = Idle
    /\ watched' = AfterMem(watched, p)
    /\ running' = [running EXCEPT ![t] = Pending(cmd, args, p)]
    /\ lookups' = p.lookups
    /\ cacheReads' = p.cacheReads
    /\ event' = [cmd |-> cmd, args |-> args]
    /\ reply' = NoReply
    /\ deletes' = <<>>
    /\ UNCHANGED <<user_cache, dbWatched, dbCache, now, budget>>

\* watch_cmd in thread t, up to "watched[uid] = disp"
BeginWatch(t, args, Lks) ==
    \E lk \in Lks, replyOk \in BOOLEAN :
       Begin(t, "watch", args, WatchPlan(args, user_cache, lk, replyOk))

\* unwatch_cmd in thread t, up to "watched.pop(uid, None)"
BeginUnwatch(t, args) ==
    Begin(t, "unwatch", args, UnwatchPlan(args, watched))

\* save_watched_user / remove_watched_user in thread t, under db_lock
Store(t) ==
    /\ running[t].pc = "store"
    /\ \E dbOk \in StoreOutcomes :
          /\ dbWatched' = AfterStore(dbWatched, running[t], dbOk)
          /\ budget' = Injected(dbOk)
    /\ running' = [running EXCEPT ![t].pc = "reply"]
    /\ UNCHANGED <<watched, user_cache, dbCache, now, event, reply, deletes,
                   lookups, cacheReads>>

\* reply_text in thread t (or the exception that leaves the handler), and
\* the handler returns
Finish(t) ==
    /\ running[t].pc = "reply"
    /\ reply' = running[t].reply
    /\ event' = [cmd |-> running[t].cmd, args |-> running[t].args]
    /\ running' = [running EXCEPT ![t] = Idle]
    /\ UNCHANGED <<watched, user_cache, dbWatched, dbCache, now, budget,
                   deletes, lookups, cacheReads>>

\* catch_all between two handlers
CatchAllAlone(m) == InProgress = {} /\ CatchAll(m)

\* a crash and restart at any statement
Crash == Restart

\* watch_cmd taken up when no other handler is in progress
WatchAlone(t, args) == InProgress = {} /\ BeginWatch(t, args, LookupResults)

\* unwatch_cmd taken up when no other handler is in progress
UnwatchAlone(t, args) == InProgress = {} /\ BeginUnwatch(t, args)

\* one handler at a time: a request is taken up when the one before returned
NextSteps ==
    \/ \E t \in Threads, args \in ArgLists : WatchAlone(t, args)
    \/ \E t \in Threads, args \in ArgLists : UnwatchAlone(t, args)
    \/ \E t \in Threads : Store(t)
    \/ \E t \in Threads : Finish(t)
    \/ \E m \in Messages : CatchAllAlone(m)
    \/ Crash

SpecSteps == Init /\ [][NextSteps]_vars

\* the requests that run in parallel: commands about the user 1, by id and
\* by handle, and messages of that user
ParallelArgLists == ArgListsOf({Str(1), <<"@", "a">>})

ParallelMessages == MessagesOf({1}, {None, <<"a">>})

\* webhook requests handled in parallel: the statements of two handlers
\* interleave, and the interpreter runs each statement as a whole
NextThreads ==
    \/ \E t \in Threads, args \in ParallelArgLists :
          BeginWatch(t, args, {LookupFailed})
    \/ \E t \in Threads, args \in ParallelArgLists : BeginUnwatch(t, args)
    \/ \E t \in Threads : Store(t)
    \/ \E t \in Threads : Finish(t)
    \/ \E m \in ParallelMessages : CatchAll(m)

SpecThreads == Init /\ [][NextThreads]_vars

----------------------------------------------------------------------------
(* The properties of the handlers                                          *)

\* the ids that have an entry in registry w
RegisteredIds(w) == {w[i][1] : i \in 1..Len(w)}

\* the cache after a message of m's sender, as the documentation has it:
\* the lowercased handle maps to the sender's id, the rest is untouched
Refreshed(cache, m) ==
    IF m.username = None THEN cache
    ELSE [k \in (DOMAIN cache) \cup {Lower(m.username)} |->
             IF k = Lower(m.username) THEN m.uid ELSE cache[k]]

\* C1: catch_all requests the deletion of a message exactly once, with the
\* message's own chat id and message id, when the sender's id is in the
\* registry at that moment, and requests no deletion otherwise.
C1_DeleteIffWatched ==
    [][\A m \in Messages : CatchAll(m) =>
          IF m.present /\ m.uid \in RegisteredIds(watched)
          THEN /\ Len(deletes') = 1
               /\ deletes'[1].chat_id = m.chat
               /\ deletes'[1].message_id = m.mid
          ELSE deletes' = <<>>]_vars

\* the message 2 of the watched sender 1 has been deleted, and the id 0 is
\* not in the registry
C1_Witness ==
    /\ event.cmd = "msg"
    /\ Len(deletes) = 1
    /\ deletes[1].message_id = 2
    /\ RegisteredIds(watched) = {1}

\* a delete_message call of the last handler failed
DeleteFailed == deletes # <<>> /\ ~deletes[1].ok

\* C2: when delete_message fails, catch_all returns normally, the registry
\* and the cache are what a successful deletion leaves, and the next message
\* of a watched sender is handled and gets its deletion request.
C2_DeleteFailureIgnored ==
    [][\A m \in Messages : CatchAll(m) =>
          /\ DeleteFailed' =>
                /\ ~reply'.raised
                /\ watched' = watched
                /\ dbWatched' = dbWatched
                /\ user_cache' = Refreshed(user_cache, m)
          /\ (DeleteFailed /\ m.present /\ m.uid \in RegisteredIds(watched)) =>
                /\ Len(deletes') = 1
                /\ deletes'[1].message_id = m.mid]_vars

\* a deletion failed for a sender that carries a handle
C2_Witness ==
    /\ event.cmd = "msg"
    /\ DeleteFailed
    /\ ~reply.raised
    /\ DOMAIN user_cache # {}

\* the handles an operator types after the "@" of a token of Spec
TypedHandles == {Tail(t) : t \in {u \in HandleTokens : Len(u) > 1}}

\* catch_all refreshes the cache from every sender with a handle, watched or
\* not, and deletes as well when the sender is watched; /unwatch keeps the cache
C3_Refresh ==
    /\ \A m \in Messages : (CatchAll(m) /\ m.present /\ m.username # None) =>
          /\ Lower(m.username) \in DOMAIN user_cache'
          /\ user_cache'[Lower(m.username)] = m.uid
          /\ m.uid \in RegisteredIds(watched) => Len(deletes') = 1
    /\ \A args \in ArgLists : UnwatchCmd(args) => user_cache' = user_cache

\* right after a user has been unwatched by id, /watch @h resolves the
\* handle that the cache holds for that user, from the cache
C3_Resolvable ==
    \A h \in TypedHandles :
       (WatchCmd(<<(<<"@">> \o h)>>, LookupResults)
          /\ Lower(h) \in DOMAIN user_cache
          /\ event.cmd = "unwatch"
          /\ reply.kind = "stopped"
          /\ reply.body = <<user_cache[Lower(h)]>>) =>
             /\ reply'.kind = "now_watching"
             /\ lookups' = <<>>
             /\ user_cache[Lower(h)] \in RegisteredIds(watched')

\* C3: after catch_all the cache maps the lowercased handle of the sender to
\* the sender's id, whether the sender is watched or not and whether the
\* deletion succeeds or not, so that the handle stays resolvable by /watch
\* @handle after the user has been unwatched.
C3_Original == [][C3_Refresh /\ C3_Resolvable]_vars

\* the part of C3 that the code keeps: the refresh itself
C3_RefreshHolds == [][C3_Refresh]_vars

\* C4: /watch with the decimal string of n, for n negative, zero or positive,
\* succeeds and leaves the entry n -> decimal string of n in the registry,
\* with no cache lookup and no member lookup, whatever the cache holds.
C4_NumericWatch ==
    [][\A n \in SignedIds : WatchCmd(<<Str(n)>>, {LookupFailed}) =>
          /\ reply'.kind = "now_watching"
          /\ ~reply'.raised
          /\ \E i \in 1..Len(watched') : watched'[i] = <<n, Str(n)>>
          /\ RegisteredIds(watched') = RegisteredIds(watched) \cup {n}
          /\ cacheReads' = <<>>
          /\ lookups' = <<>>
          /\ user_cache' = user_cache]_vars

\* /watch -1 has registered the id -1 while the cache holds a handle
C4_Witness ==
    /\ event = [cmd |-> "watch", args |-> << <<"-", "1">> >>]
    /\ reply.kind = "now_watching"
    /\ \E i \in 1..Len(watched) : watched[i] = <<0 - 1, <<"-", "1">> >>
    /\ DOMAIN user_cache # {}

\* an optionally-negative integer literal: digits after at most one "-"
IsIntLiteral(t) ==
    \/ IsDigit(t)
    \/ Len(t) > 1 /\ Head(t) = "-" /\ IsDigit(Tail(t))

\* the replies that stand for InvalidArgument
InvalidArgument(r) == ~r.raised /\ r.kind \in {"usage", "invalid"}

\* C5: /watch leaves the registry unchanged and answers Unresolved for "@h"
\* with h not in the cache and a failed member lookup, InvalidArgument for
\* "@", and InvalidArgument for every token that is neither an
\* optionally-negative integer literal nor of the "@handle" shape.
C5_Original ==
    [][\A t \in Tokens : WatchCmd(<<t>>, {LookupFailed}) =>
          /\ (Len(t) > 1 /\ Head(t) = "@"
                /\ Lower(Tail(t)) \notin DOMAIN user_cache) =>
                   /\ reply'.kind = "unresolved" /\ ~reply'.raised
                   /\ watched' = watched
          /\ t = <<"@">> =>
                   /\ InvalidArgument(reply')
                   /\ watched' = watched
          /\ (~IsIntLiteral(t) /\ Head(t) # "@") =>
                   /\ InvalidArgument(reply')
                   /\ watched' = watched]_vars

\* every key of the cache is its own lowercase form: one entry per
\* case-folded handle
OnePerFoldedHandle == \A k \in DOMAIN user_cache : Lower(k) = k

\* C6: the cache is case-insensitive and last-writer-wins: the most recent
\* observe of a handle decides what /watch @h finds, for h in any letter
\* case and for every user id, as a cache hit; one entry per folded handle.
C6_Original ==
    [][/\ \A m \in Messages : (CatchAll(m) /\ m.present /\ m.username # None) =>
             /\ Lower(m.username) \in DOMAIN user_cache'
             /\ user_cache'[Lower(m.username)] = m.uid
             /\ OnePerFoldedHandle'
       /\ \A h \in TypedHandles :
             (WatchCmd(<<(<<"@">> \o h)>>, LookupResults)
                /\ Lower(h) \in DOMAIN user_cache) =>
                   /\ cacheReads' = <<Lower(h)>>
                   /\ lookups' = <<>>
                   /\ reply' = Reply("now_watching", <<user_cache[Lower(h)]>>)]_vars

\* C7: /unwatch <id> of a registered id reports the removal and takes the id
\* out of the registry (and, when the store call succeeds, out of the table);
\* /unwatch <id> of an id that is not registered, such as a second /unwatch,
\* reports that nothing was removed and changes neither registry nor table.
C7_IdempotentRemoval ==
    [][\A n \in UserIds : UnwatchCmd(<<Str(n)>>) =>
          IF n \in RegisteredIds(watched)
          THEN /\ reply' = Reply("stopped", <<n>>)
               /\ RegisteredIds(watched') = RegisteredIds(watched) \ {n}
               /\ budget' = budget => n \notin DOMAIN dbWatched'
          ELSE /\ reply'.kind = "id_not_watched"
               /\ ~reply'.raised
               /\ watched' = watched
               /\ dbWatched' = dbWatched]_vars

\* /unwatch 1 finds nothing to remove: the id 1 is in neither registry nor
\* table, while the id 0, registered under a handle, still is
C7_Witness ==
    /\ event = [cmd |-> "unwatch", args |-> << <<"1">> >>]
    /\ reply.kind = "id_not_watched"
    /\ 1 \notin RegisteredIds(watched)
    /\ 1 \notin DOMAIN dbWatched
    /\ \E i \in 1..Len(watched) : watched[i][1] = 0 /\ Head(watched[i][2]) = "@"

\* a display without its leading "@" characters
RECURSIVE DropAts(_)
DropAts(d) ==
    IF d # <<>> /\ d[1] = "@" THEN DropAts(SubSeq(d, 2, Len(d))) ELSE d

\* equal up to letter case
SameFolded(x, y) ==
    Len(x) = Len(y) /\ \A i \in 1..Len(x) : LowerChar(x[i]) = LowerChar(y[i])

\* registry w without its i-th entry
RemoveAt(w, i) == SubSeq(w, 1, i - 1) \o SubSeq(w, i + 1, Len(w))

\* the entries of w whose display is the handle h
EntriesOfHandle(w, h) ==
    {i \in 1..Len(w) : SameFolded(DropAts(w[i][2]), h)}

\* C8: /unwatch @h removes one entry whose display, without its leading "@"
\* and up to letter case, is h, whether the display was stored with an "@" or
\* without one; with no such entry it reports that the handle was not watched
\* and leaves the registry as it is.
C8_UnwatchByHandle ==
    [][\A h \in TypedHandles : UnwatchCmd(<<(<<"@">> \o h)>>) =>
          IF EntriesOfHandle(watched, h) # {}
          THEN /\ reply'.kind = "stopped_name"
               /\ ~reply'.raised
               /\ \E i \in EntriesOfHandle(watched, h) :
                     /\ watched' = RemoveAt(watched, i)
                     /\ budget' = budget => watched[i][1] \notin DOMAIN dbWatched'
          ELSE /\ reply'.kind = "name_not_watched"
               /\ watched' = watched
               /\ dbWatched' = dbWatched]_vars

\* /unwatch @1 has removed the entry that /watch 1 stored with the display
\* "1", and an entry stored with an "@" is still registered
C8_Witness ==
    /\ event = [cmd |-> "unwatch", args |-> << <<"@", "1">> >>]
    /\ reply.kind = "stopped_name"
    /\ \E i \in 1..Len(watched) : Head(watched[i][2]) = "@"

\* the number of entries of a mapping
Size(m) == Cardinality(DOMAIN m)

\* C9: neither the user_cache mapping nor the user_cache table ever holds
\* more entries than the upper bound, and an observe that pushes the size
\* above the bound leaves it at or below the target.
C9_Original ==
    [][/\ Size(user_cache') <= CACHE_BOUND
       /\ Size(dbCache') <= CACHE_BOUND
       /\ \A m \in ManyMessages :
             (CatchAll(m) /\ m.present /\ Size(user_cache) = CACHE_BOUND
                /\ Lower(m.username) \notin DOMAIN user_cache) =>
                   Size(user_cache') <= CACHE_TARGET
       /\ \A m \in ManyMessages :
             (CatchAll(m) /\ m.present /\ Size(dbCache) = CACHE_BOUND
                /\ Lower(m.username) \notin DOMAIN dbCache) =>
                   Size(dbCache') <= CACHE_TARGET]_vars

\* what the code does keep: the table never holds more than KEEP_ROWS rows
C9_TableBounded == Size(dbCache) <= KEEP_ROWS

\* the user ids of a registry, in the order of its entries
IdOrder(w) == [i \in 1..Len(w) |-> w[i][1]]

\* C10: /who lists exactly the entries of the registry, display and id, in
\* the order in which the ids were inserted (/watch 1 then /who shows the
\* display "1"); the order is the same for repeated /who calls and after the
\* registry is loaded again from the table; with no entry /who says so.
C10_Original ==
    [][/\ WhoCmd =>
             /\ watched = <<>> => reply'.kind = "no_users"
             /\ watched # <<>> =>
                   /\ reply'.kind = "who"
                   /\ Len(reply'.body) = Len(watched)
                   /\ \A i \in 1..Len(watched) :
                         reply'.body[i] = [disp |-> watched[i][2],
                                           uid |-> watched[i][1]]
             /\ watched' = watched
       /\ \A args \in ArgLists :
             (WatchCmd(args, LookupResults) /\ reply'.kind = "now_watching") =>
                LET uid == reply'.body[1] IN
                IF uid \in RegisteredIds(watched)
                THEN IdOrder(watched') = IdOrder(watched)
                ELSE IdOrder(watched') = Append(IdOrder(watched), uid)
       /\ WatchCmd(<< <<"1">> >>, LookupResults) =>
             \E i \in 1..Len(watched') : watched'[i] = <<1, <<"1">> >>
       /\ Restart => IdOrder(watched') = IdOrder(watched)]_vars

\* the part of C10 that the code keeps: everything but the reload
C10_WhoInOrder ==
    [][/\ WhoCmd =>
             /\ reply'.body = IF watched = <<>> THEN <<>>
                              ELSE [i \in 1..Len(watched) |->
                                      [disp |-> watched[i][2],
                                       uid |-> watched[i][1]]]
             /\ watched' = watched
       /\ \A args \in ArgLists :
             (WatchCmd(args, LookupResults) /\ reply'.kind = "now_watching") =>
                IF reply'.body[1] \in RegisteredIds(watched)
                THEN IdOrder(watched') = IdOrder(watched)
                ELSE IdOrder(watched') = Append(IdOrder(watched), reply'.body[1])]_vars

\* the outcomes that the documentation defines for /watch and /unwatch:
\* success, InvalidArgument, Unresolved, not-watched
DefinedOutcome(r) ==
    /\ ~r.raised
    /\ r.kind \in {"now_watching", "stopped", "stopped_name", "usage", "invalid",
                   "cannot_unwatch", "unresolved", "id_not_watched",
                   "name_not_watched"}

\* C11: /watch and /unwatch end with one of the defined outcomes for every
\* argument list, every outcome of the member lookup and every outcome of
\* the store calls; no exception leaves the handler.
C11_Original ==
    [][\A args \in ArgLists :
          (WatchCmd(args, LookupResults) \/ UnwatchCmd(args)) =>
             DefinedOutcome(reply')]_vars

\* the part of C11 that the code keeps: the only exception that leaves the
\* two handlers is the ValueError of int() on a token with several "-"
C11_OnlyValueError ==
    [][\A args \in ArgLists :
          (WatchCmd(args, LookupResults) \/ UnwatchCmd(args)) =>
             \/ DefinedOutcome(reply')
             \/ /\ reply' = Raised
                /\ IsNumeric(Strip(args[1]))
                /\ ~IsIntLiteral(Strip(args[1]))
                /\ watched' = watched
                /\ dbWatched' = dbWatched]_vars

\* the (user_id, display) entries of registry w
Entries(w) == {<<w[i][1], w[i][2]>> : i \in 1..Len(w)}

\* the (user_id, display_name) rows of table db
Rows(db) == {<<k, db[k]>> : k \in DOMAIN db}

\* the table watched_users holds exactly the entries of the registry
Durable == Rows(dbWatched) = Entries(watched)

\* C12: handlers that run in parallel do not interleave their updates of
\* the registry and of the table: the outcome is that of a serial order, and
\* so, once every handler has returned, the table watched_users holds
\* exactly the (user_id, display) entries of the registry.
C12_Original == InProgress = {} => Durable

\* the registry update and the store call of one handler are not one step:
\* another handler can run between them
C12_Interleaved ==
    \E t \in Threads, u \in Threads :
       /\ t # u
       /\ running[t].pc = "store"
       /\ running[u].pc = "store"
       /\ running[t].uid = running[u].uid
       /\ running[t].op # running[u].op

\* the member lookups that find a user
FoundResults == {lk \in LookupResults : lk.found}

\* /watch @h misses the cache and get_chat_member finds member lk
ResolvedExternally(h, lk) ==
    /\ WatchCmd(<<(<<"@">> \o h)>>, {lk})
    /\ Lower(h) \notin DOMAIN user_cache
    /\ reply'.kind = "now_watching"

\* the display of a member: "@" and the handle, or "@" and the display name
\* when the member has no handle
DisplayOfMember(lk) ==
    IF lk.username # None THEN <<"@">> \o lk.username
    ELSE <<"@">> \o lk.first_name

\* the registry entry of a member found by the lookup
C13_Display ==
    \A h \in TypedHandles, lk \in FoundResults :
       ResolvedExternally(h, lk) =>
          \E i \in 1..Len(watched') :
             watched'[i] = <<lk.uid, DisplayOfMember(lk)>>

\* C13: when /watch @h misses the cache and the member lookup succeeds, the
\* cache maps the case-folded h to the resolved user id after the command,
\* and the registry entry's display is "@" and the handle the platform
\* reports, or "@" and the display name when it reports no handle.
C13_Original ==
    [][/\ C13_Display
       /\ \A h \in TypedHandles, lk \in FoundResults :
             ResolvedExternally(h, lk) =>
                /\ Lower(h) \in DOMAIN user_cache'
                /\ user_cache'[Lower(h)] = lk.uid]_vars

\* the part of C13 that the code keeps: the display of the entry
C13_DisplayHolds == [][C13_Display]_vars

\* a member was resolved by the lookup and registered under its display name
C13_Resolved ==
    /\ event.cmd = "watch"
    /\ lookups # <<>>
    /\ reply.kind = "now_watching"
    /\ \E i \in 1..Len(watched) : watched[i][2] = <<"@", "a">>
    /\ user_cache = EmptyMap

\* /watch @h with the cache holding an entry for the folded h when hit(h),
\* resolved in the order cache, then member lookup
ResolutionOrder(hit(_)) ==
    \A h \in TypedHandles : WatchCmd(<<(<<"@">> \o h)>>, LookupResults) =>
       /\ cacheReads' = <<Lower(h)>>
       /\ IF hit(h)
          THEN /\ reply' = Reply("now_watching", <<user_cache[Lower(h)]>>)
               /\ \E i \in 1..Len(watched') :
                     watched'[i] = <<user_cache[Lower(h)], <<"@">> \o h>>
               /\ lookups' = <<>>
          ELSE /\ lookups' = <<h>>
               /\ reply'.kind \in {"now_watching", "unresolved"}

\* the cache has an entry for the case-folded handle
HasEntry(h) == Lower(h) \in DOMAIN user_cache

\* the cache has an entry for the case-folded handle, and the id is not 0
HasNonZeroEntry(h) == HasEntry(h) /\ user_cache[Lower(h)] # 0

\* C14: /watch @h reads the cache first; with an entry for the case-folded h
\* it succeeds with the cached user id and the display "@" + h as typed,
\* and the member lookup is not called; only on a miss the member lookup is
\* called, once, with h.
C14_Original == [][ResolutionOrder(HasEntry)]_vars

\* the part of C14 that the code keeps: the order holds for every cached id
\* but 0
C14_NonZeroIds == [][ResolutionOrder(HasNonZeroEntry)]_vars

\* /watch @A was resolved from the entry that the cache holds under "a"
C14_CacheHit ==
    /\ event = [cmd |-> "watch", args |-> << <<"@", "A">> >>]
    /\ cacheReads = << <<"a">> >>
    /\ lookups = <<>>
    /\ reply.kind = "now_watching"
    /\ \E i \in 1..Len(watched) : watched[i] = <<1, <<"@", "A">> >>

\* the table user_cache right after the INSERT OR REPLACE of an observe of
\* message m, before the pruning
Inserted(db, m, t) ==
    [k \in (DOMAIN db) \cup {Lower(m.username)} |->
        IF k = Lower(m.username) THEN [user_id |-> m.uid, last_seen |-> t]
        ELSE db[k]]

\* the rows that must go to bring n rows down to the target size
Excess(n) == IF n > KEEP_ROWS THEN n - KEEP_ROWS ELSE 0

\* an observe with a handle, by catch_all
Observes(m) == CatchAll(m) /\ m.present /\ m.username # None

\* the pruning of an observe removes as many rows as needed and no more,
\* and removes no row that is newer than a row it keeps
C15_NoExcess ==
    \A m \in ManyMessages : Observes(m) =>
       /\ DOMAIN dbCache' \subseteq DOMAIN Inserted(dbCache, m, now)
       /\ Size(dbCache') = Size(Inserted(dbCache, m, now))
                              - Excess(Size(Inserted(dbCache, m, now)))
       /\ \A k \in DOMAIN dbCache' :
             dbCache'[k] = Inserted(dbCache, m, now)[k]

\* a lookup evicts nothing: /watch leaves the cache and its table alone
C15_LookupKeeps ==
    \A args \in ArgLists : WatchCmd(args, LookupResults) =>
       /\ user_cache' = user_cache
       /\ dbCache' = dbCache

\* C15: an observe that triggers the pruning of save_user_cache keeps the
\* entry it has just written and removes no more entries than needed to
\* reach the target size, whatever the last_seen values are, equal ones
\* included; a lookup evicts nothing.
C15_Original ==
    [][/\ C15_NoExcess
       /\ C15_LookupKeeps
       /\ \A m \in ManyMessages : Observes(m) =>
             /\ Lower(m.username) \in DOMAIN dbCache'
             /\ dbCache'[Lower(m.username)].user_id = m.uid]_vars

\* the part of C15 that the code keeps
C15_NoExcessHolds == [][C15_NoExcess /\ C15_LookupKeeps]_vars

\* the observe of a handle has left the table full and without that handle,
\* while the dict holds it
C15_Evicted ==
    /\ event.cmd = "msg"
    /\ Size(dbCache) = KEEP_ROWS
    /\ \E k \in DOMAIN user_cache : k \notin DOMAIN dbCache /\ k = <<"c">>
    /\ \A k \in DOMAIN dbCache : dbCache[k].last_seen = now

\* C16: with one handler at a time and a store that does not fail, every
\* update of the registry by /watch or /unwatch is followed in the same
\* handler, before its reply, by the store call for the same user id: while
\* the store call is pending the table differs from the registry by that
\* one update, and at the reply and between handlers the table holds
\* exactly the entries of the registry.
C16_DurableWriteFollows ==
    /\ InProgress = {} => Durable
    /\ \A t \in InProgress :
          /\ running[t].pc = "store" =>
                /\ running[t].op \in {"save", "remove"}
                /\ Rows(AfterStore(dbWatched, running[t], TRUE)) = Entries(watched)
                /\ \A k \in (DOMAIN dbWatched) \ {running[t].uid} :
                      <<k, dbWatched[k]>> \in Entries(watched)
          /\ running[t].pc = "reply" => Durable
    /\ reply.kind \in {"now_watching", "stopped", "stopped_name"} => Durable

\* /unwatch has taken an id out of the registry and its row is still in the
\* table, next to the row of an id that stays registered
C16_Witness ==
    \E t \in Threads :
       /\ running[t].pc = "store"
       /\ running[t].op = "remove"
       /\ running[t].uid \in DOMAIN dbWatched
       /\ running[t].uid \notin RegisteredIds(watched)
       /\ watched # <<>>
       /\ ~Durable

\* the displays of two entries are the same handle
SameDisplay(d, e) == SameFolded(DropAts(d), DropAts(e))

\* C17: no two entries of the registry share a display: the displays of two
\* distinct user ids differ, compared without leading "@" and up to letter
\* case, so that a handle given to /unwatch matches at most one entry.
C17_Original ==
    \A i \in 1..Len(watched), j \in 1..Len(watched) :
       i # j => ~SameDisplay(watched[i][2], watched[j][2])

\* what the add path does keep: one entry per user id
C17_OneEntryPerId ==
    \A i \in 1..Len(watched), j \in 1..Len(watched) :
       i # j => watched[i][1] # watched[j][1]

\* C20: after /unwatch @h has answered "Stopped watching @h", no entry of
\* the registry has a display that matches h, however many user ids were
\* registered with a matching display.
C20_Original ==
    [][\A args \in HandleArgLists :
          (UnwatchCmd(args) /\ reply'.kind = "stopped_name") =>
             EntriesOfHandle(watched', Tail(args[1])) = {}]_vars

\* the part of C20 that the code keeps: the first matching entry is gone
C20_FirstMatchRemoved ==
    [][\A args \in HandleArgLists :
          (UnwatchCmd(args) /\ reply'.kind = "stopped_name") =>
             /\ Len(watched') = Len(watched) - 1
             /\ \E i \in EntriesOfHandle(watched, Tail(args[1])) :
                   /\ \A j \in EntriesOfHandle(watched, Tail(args[1])) : i <= j
                   /\ watched' = RemoveAt(watched, i)]_vars

\* the step leaves the registry and its table as they are
RegistryKept == watched' = watched /\ dbWatched' = dbWatched

\* the step leaves the cache and its table as they are
CacheKept == user_cache' = user_cache /\ dbCache' = dbCache

\* C18: the registry and the cache change only through their own mutators:
\* catch_all never changes the registry; without a message or a sender it
\* changes neither map and requests no deletion; for a sender without a
\* handle it leaves the cache unchanged; /id and /who change neither map;
\* /unwatch and /watch with a numeric token never change the cache.
C18_Frame ==
    [][/\ \A m \in Messages : CatchAll(m) =>
             /\ RegistryKept
             /\ ~m.present => (CacheKept /\ deletes' = <<>>)
             /\ (m.present /\ m.username = None) => CacheKept
       /\ \A sender \in Senders : IdCmd(sender) => (RegistryKept /\ CacheKept)
       /\ WhoCmd => (RegistryKept /\ CacheKept)
       /\ \A args \in ArgLists : UnwatchCmd(args) => CacheKept
       /\ \A t \in NumericTokens :
             WatchCmd(<<t>>, LookupResults) => CacheKept]_vars

\* the message of a watched sender without a handle has been handled: its
\* deletion was requested, the registry has its entries and the cache has
\* none
C18_Witness ==
    /\ event.cmd = "msg"
    /\ Len(deletes) = 1
    /\ Len(watched) = 2
    /\ user_cache = EmptyMap

\* the replies of /watch @h that tell the operator the handle was not
\* resolved
Unresolved(r) == ~r.raised /\ r.kind = "unresolved"

\* C19: whenever /watch @h answers with the Unresolved guidance, the
\* registry and the table watched_users are as they were before the
\* command, whether the member lookup failed or the confirmation reply
\* after the registry update did.
C19_Original ==
    [][\A args \in ArgLists :
          (WatchCmd(args, LookupResults) /\ Unresolved(reply')) => RegistryKept]_vars

\* the part of C19 that the code keeps: a failed member lookup changes
\* neither registry nor table
C19_LookupFailureKeeps ==
    [][\A args \in ArgLists :
          (WatchCmd(args, {LookupFailed}) /\ Unresolved(reply')) => RegistryKept]_vars

====
